---------------------------- MODULE Spec2Model ----------------------------
(***************************************************************************)
(* A model of qr_summary_bot.py: the payment-text parser, the sqlite       *)
(* payments table, the per-currency aggregation queries and the Telegram   *)
(* handlers around them.                                                   *)
(*                                                                         *)
(* Texts are tuples of one-character strings, so that the regular          *)
(* expressions, strptime, isoformat and sqlite's date functions are        *)
(* modelled by what they do to the characters.  The dispatcher of          *)
(* python-telegram-bot runs one handler at a time, so each handler is one  *)
(* action of Spec.  Amounts are exact decimals (binary rounding of float   *)
(* is not modelled).                                                       *)
(*                                                                         *)
(* Three specifications: Spec, the handlers run one at a time; ParserSpec, *)
(* parse_payment alone over texts put together from parts; StoreSpec, the  *)
(* store functions on connections of their own, their steps interleaved    *)
(* under sqlite's file locks.                                              *)
(***************************************************************************)
EXTENDS Integers, Sequences, FiniteSets

\* ------------------------------------------------------------------ CONFIG
\* Chat identifiers exceed 32 bits; they are only compared for equality, so
\* they are kept as their decimal text.
MAIN_CHAT_ID == "-4850657873"
SUMMARY_CHAT_ID == "-1003387786870"
ADMIN_IDS == {123456789}

\* ------------------------------------------------------------- CHARACTERS
DigitSeq == <<"0", "1", "2", "3", "4", "5", "6", "7", "8", "9">>
Digit == {DigitSeq[k] : k \in 1..10}
UpperSeq == <<"A", "B", "C", "D", "E", "F", "G", "H", "I", "J", "K", "L", "M", "N", "O", "P", "Q", "R", "S", "T", "U", "V", "W", "X", "Y", "Z">>
LowerSeq == <<"a", "b", "c", "d", "e", "f", "g", "h", "i", "j", "k", "l", "m", "n", "o", "p", "q", "r", "s", "t", "u", "v", "w", "x", "y", "z">>
Alpha == {UpperSeq[k] : k \in 1..26} \cup {LowerSeq[k] : k \in 1..26}
Space == {" "}
DigitComma == Digit \cup {","}

\* int() of one decimal digit character
DigitVal(c) == (CHOOSE k \in 1..10 : DigitSeq[k] = c) - 1

\* int() of a non-empty run of decimal digits
RECURSIVE DigitsVal(_)
DigitsVal(s) ==
    IF s = <<>> THEN 0
    ELSE 10 * DigitsVal(SubSeq(s, 1, Len(s) - 1)) + DigitVal(s[Len(s)])

\* str.lower() on ASCII letters
LowerChar(c) ==
    IF \E k \in 1..26 : UpperSeq[k] = c
    THEN LowerSeq[CHOOSE k \in 1..26 : UpperSeq[k] = c]
    ELSE c

Lower(s) == [k \in 1..Len(s) |-> LowerChar(s[k])]

RECURSIVE Pow10(_)
Pow10(n) == IF n = 0 THEN 1 ELSE 10 * Pow10(n - 1)

\* the decimal digits of n >= 0, most significant first
RECURSIVE NatStr(_)
NatStr(n) ==
    IF n < 10 THEN <<DigitSeq[n + 1]>>
    ELSE NatStr(n \div 10) \o <<DigitSeq[(n % 10) + 1]>>

\* format(n, "0<w>d") for n >= 0: zero-padded to at least w digits
RECURSIVE ZeroPad(_, _)
ZeroPad(s, w) == IF Len(s) >= w THEN s ELSE ZeroPad(<<"0">> \o s, w)

Fmt0(n, w) == ZeroPad(NatStr(n), w)

\* ----------------------------------------------------- REGEX PRIMITIVES
\* The end (exclusive) of the longest run of characters of class C that
\* starts at position i: what a greedy C* consumes.  None of the patterns
\* below can succeed after giving characters of such a run back, because
\* what follows each run is a character outside its class.
SpanEnd(text, i, C) ==
    CHOOSE j \in i..(Len(text) + 1) :
        /\ \A k \in i..(j - 1) : text[k] \in C
        /\ (j = Len(text) + 1 \/ text[j] \notin C)

\* a literal at position i
LitAt(text, i, lit) ==
    /\ i >= 1
    /\ i + Len(lit) - 1 <= Len(text)
    /\ SubSeq(text, i, i + Len(lit) - 1) = lit

\* every character of text[i..j] is in class C, and the range is in the text
AllIn(text, i, j, C) ==
    /\ i >= 1
    /\ j <= Len(text)
    /\ \A k \in i..j : text[k] \in C

\* A match object: matched, and the groups when it did.
NoMatch == [matched |-> FALSE, groups |-> <<>>]
Match(gs) == [matched |-> TRUE, groups |-> gs]

LitReceived == <<"R", "e", "c", "e", "i", "v", "e", "d">>
USD == <<"U", "S", "D">>
KHR == <<"K", "H", "R">>
LitOn == <<"o", "n">>
LitComma == <<",">>

\* -------------------------------------------------------------- PARSING
\* AMT_PATTERN = Received\s+([\d,]+(?:\.\d+)?)\s+(USD|KHR), tried at start i.
\* The pieces, left to right: a is the end of "Received", b of \s+, c of
\* [\d,]+, d of the optional (?:\.\d+), e of the second \s+.
AmtIntEnd(text, i) ==
    SpanEnd(text, SpanEnd(text, i + Len(LitReceived), Space), DigitComma)

AmtHasFrac(text, c) ==
    /\ c + 1 <= Len(text)
    /\ text[c] = "."
    /\ text[c + 1] \in Digit

AmtEnd(text, i) ==
    LET c == AmtIntEnd(text, i)
    IN  IF AmtHasFrac(text, c) THEN SpanEnd(text, c + 1, Digit) ELSE c

AmtMatchAt(text, i) ==
    LET a == i + Len(LitReceived)
        b == SpanEnd(text, a, Space)
        c == SpanEnd(text, b, DigitComma)
        d == AmtEnd(text, i)
        e == SpanEnd(text, d, Space)
    IN  /\ LitAt(text, i, LitReceived)
        /\ b > a
        /\ c > b
        /\ e > d
        /\ (LitAt(text, e, USD) \/ LitAt(text, e, KHR))

AmtGroups(text, i) ==
    LET b == SpanEnd(text, i + Len(LitReceived), Space)
        d == AmtEnd(text, i)
        e == SpanEnd(text, d, Space)
    IN  <<SubSeq(text, b, d - 1), SubSeq(text, e, e + 2)>>

\* AMT_PATTERN.search(text): the leftmost match
AMT_PATTERN(text) ==
    IF \E i \in 1..Len(text) : AmtMatchAt(text, i)
    THEN LET i == CHOOSE i \in 1..Len(text) :
                    /\ AmtMatchAt(text, i)
                    /\ \A h \in 1..(i - 1) : ~AmtMatchAt(text, h)
         IN  Match(AmtGroups(text, i))
    ELSE NoMatch

\* (\d{2}-[A-Za-z]{3}-\d{4}) at position b
DateShapeAt(text, b) ==
    /\ AllIn(text, b, b + 1, Digit)
    /\ LitAt(text, b + 2, <<"-">>)
    /\ AllIn(text, b + 3, b + 5, Alpha)
    /\ LitAt(text, b + 6, <<"-">>)
    /\ AllIn(text, b + 7, b + 10, Digit)

\* The number of hour digits \d{1,2} takes at position d so that ":" follows
\* (0: neither one nor two digits are followed by ":").
HourDigits(text, d) ==
    IF AllIn(text, d, d + 1, Digit) /\ LitAt(text, d + 2, <<":">>) THEN 2
    ELSE IF AllIn(text, d, d, Digit) /\ LitAt(text, d + 1, <<":">>) THEN 1
    ELSE 0

\* (\d{1,2}:\d{2}[AP]M) at position d
TimeShapeAt(text, d) ==
    LET h == HourDigits(text, d)
    IN  /\ h > 0
        /\ AllIn(text, d + h + 1, d + h + 2, Digit)
        /\ AllIn(text, d + h + 3, d + h + 3, {"A", "P"})
        /\ LitAt(text, d + h + 4, <<"M">>)

\* <kw>\s{minSpace,}(date)\s+(time) tried at start i; kw is "on" with \s+
\* (DT_PATTERN1) or "," with \s* (DT_PATTERN2).
DtMatchAt(text, i, kw, minSpace) ==
    LET a == i + Len(kw)
        b == SpanEnd(text, a, Space)
        c == b + 11
        d == SpanEnd(text, c, Space)
    IN  /\ LitAt(text, i, kw)
        /\ b - a >= minSpace
        /\ DateShapeAt(text, b)
        /\ d > c
        /\ TimeShapeAt(text, d)

DtGroups(text, i, kw) ==
    LET b == SpanEnd(text, i + Len(kw), Space)
        d == SpanEnd(text, b + 11, Space)
    IN  <<SubSeq(text, b, b + 10),
          SubSeq(text, d, d + HourDigits(text, d) + 4)>>

DtSearch(text, kw, minSpace) ==
    IF \E i \in 1..Len(text) : DtMatchAt(text, i, kw, minSpace)
    THEN LET i == CHOOSE i \in 1..Len(text) :
                    /\ DtMatchAt(text, i, kw, minSpace)
                    /\ \A h \in 1..(i - 1) : ~DtMatchAt(text, h, kw, minSpace)
         IN  Match(DtGroups(text, i, kw))
    ELSE NoMatch

DT_PATTERN1(text) == DtSearch(text, LitOn, 1)
DT_PATTERN2(text) == DtSearch(text, LitComma, 0)

\* ---- float(amount_str.replace(",", ""))
\* An exact decimal m / 10^e, kept normalised (no trailing zero in the
\* fraction), so that equal values are equal records.
RECURSIVE DecNorm(_, _)
DecNorm(m, e) ==
    IF e > 0 /\ m % 10 = 0 THEN DecNorm(m \div 10, e - 1)
    ELSE [m |-> m, e |-> e]

DecZero == [m |-> 0, e |-> 0]

DecAdd(x, y) ==
    LET e == IF x.e >= y.e THEN x.e ELSE y.e
    IN  DecNorm(x.m * Pow10(e - x.e) + y.m * Pow10(e - y.e), e)

NotComma(c) == c # ","

\* str.replace(",", "")
StripCommas(s) == SelectSeq(s, NotComma)

\* float(s) for s made of digits with at most one "." that digits follow:
\* ValueError on the empty string, the value otherwise.
Float(s) ==
    LET dot == IF \E k \in 1..Len(s) : s[k] = "."
               THEN CHOOSE k \in 1..Len(s) : s[k] = "."
               ELSE Len(s) + 1
        ip == SubSeq(s, 1, dot - 1)
        fp == SubSeq(s, dot + 1, Len(s))
    IN  IF s = <<>> THEN [ok |-> FALSE, value |-> DecZero]
        ELSE [ok |-> TRUE,
              value |-> DecNorm(DigitsVal(ip) * Pow10(Len(fp)) + DigitsVal(fp),
                                Len(fp))]

\* ---- datetime.strptime(f"{date_str} {time_str}", "%d-%b-%Y %I:%M%p")
MonthAbbr == << <<"j", "a", "n">>, <<"f", "e", "b">>, <<"m", "a", "r">>, <<"a", "p", "r">>, <<"m", "a", "y">>, <<"j", "u", "n">>,
                <<"j", "u", "l">>, <<"a", "u", "g">>, <<"s", "e", "p">>, <<"o", "c", "t">>, <<"n", "o", "v">>, <<"d", "e", "c">> >>

IsLeap(y) == (y % 4 = 0 /\ y % 100 # 0) \/ y % 400 = 0

DaysInMonth(y, m) ==
    IF m = 2 THEN (IF IsLeap(y) THEN 29 ELSE 28)
    ELSE IF m \in {4, 6, 9, 11} THEN 30
    ELSE 31

NoDatetime ==
    [year |-> 0, month |-> 0, day |-> 0, hour |-> 0, minute |-> 0, second |-> 0]

\* date_str is dd-bbb-yyyy and time_str is h:mmXM or hh:mmXM (the shapes the
\* patterns capture).  %d takes 01..31, %b a month abbreviation in any case,
\* %Y a year that datetime accepts (1..9999), %I 1..12, %M 00..59; then the
\* day must exist in the month.  ValueError otherwise.
Strptime(date_str, time_str) ==
    LET day == DigitsVal(SubSeq(date_str, 1, 2))
        mon == Lower(SubSeq(date_str, 4, 6))
        year == DigitsVal(SubSeq(date_str, 8, 11))
        hl == Len(time_str) - 5
        h12 == DigitsVal(SubSeq(time_str, 1, hl))
        minute == DigitsVal(SubSeq(time_str, hl + 2, hl + 3))
        pm == time_str[hl + 4] = "P"
        month == CHOOSE k \in 1..12 : MonthAbbr[k] = mon
        ok == /\ day \in 1..31
              /\ \E k \in 1..12 : MonthAbbr[k] = mon
              /\ year >= 1
              /\ h12 \in 1..12
              /\ minute \in 0..59
              /\ day <= DaysInMonth(year, month)
    IN  IF ok
        THEN [ok |-> TRUE,
              value |-> [year |-> year, month |-> month, day |-> day,
                         hour |-> (h12 % 12) + (IF pm THEN 12 ELSE 0),
                         minute |-> minute, second |-> 0]]
        ELSE [ok |-> FALSE, value |-> NoDatetime]

\* ---- parse_payment
\* The three outcomes of a call: a dict, None, or an exception raised to the
\* caller (float() of an amount made of commas only).
ParsedNone ==
    [kind |-> "None", amount |-> DecZero, currency |-> <<>>,
     paid_at |-> NoDatetime]
ParsedRaise ==
    [kind |-> "raise", amount |-> DecZero, currency |-> <<>>,
     paid_at |-> NoDatetime]

\* m_dt = DT_PATTERN1.search(text) or DT_PATTERN2.search(text)
\* DtMatch with the comma pattern tried first.
DtMatchCommaFirst(text) ==
    IF DT_PATTERN2(text).matched THEN DT_PATTERN2(text) ELSE DT_PATTERN1(text)
DtMatch(text) ==
    IF DT_PATTERN1(text).matched THEN DT_PATTERN1(text) ELSE DT_PATTERN2(text)

\* parse_payment that falls back to a default date-time when none parses.
parse_payment_default_date(text) ==
    LET m_amt == AMT_PATTERN(text)
        amount == Float(StripCommas(m_amt.groups[1]))
        m_dt == DtMatch(text)
        paid_at == Strptime(m_dt.groups[1], m_dt.groups[2])
    IN  IF ~m_amt.matched THEN ParsedNone
        ELSE IF ~amount.ok THEN ParsedRaise
        ELSE [kind |-> "dict", amount |-> amount.value,
              currency |-> m_amt.groups[2],
              paid_at |-> IF m_dt.matched /\ paid_at.ok THEN paid_at.value
                          ELSE [year |-> 2025, month |-> 12, day |-> 11,
                                hour |-> 0, minute |-> 0, second |-> 0]]

parse_payment(text) ==
    LET m_amt == AMT_PATTERN(text)
        amount == Float(StripCommas(m_amt.groups[1]))
        m_dt == DtMatch(text)
        paid_at == Strptime(m_dt.groups[1], m_dt.groups[2])
    IN  IF ~m_amt.matched THEN ParsedNone
        ELSE IF ~amount.ok THEN ParsedRaise
        ELSE IF ~m_dt.matched THEN ParsedNone
        ELSE IF ~paid_at.ok THEN ParsedNone
        ELSE [kind |-> "dict", amount |-> amount.value,
              currency |-> m_amt.groups[2], paid_at |-> paid_at.value]

\* ------------------------------------------------------- DATE RENDERING
\* datetime.isoformat() with no microseconds: YYYY-MM-DDTHH:MM:SS
DatetimeIsoformat(dt) ==
    Fmt0(dt.year, 4) \o <<"-">> \o Fmt0(dt.month, 2) \o <<"-">>
        \o Fmt0(dt.day, 2) \o <<"T">> \o Fmt0(dt.hour, 2) \o <<":">>
        \o Fmt0(dt.minute, 2) \o <<":">> \o Fmt0(dt.second, 2)

\* date.isoformat(): YYYY-MM-DD
DateIsoformat(d) ==
    Fmt0(d.year, 4) \o <<"-">> \o Fmt0(d.month, 2) \o <<"-">> \o Fmt0(d.day, 2)

\* f"{year:04d}-{month:02d}" for year, month >= 0
YearMonthLabel(year, month) == Fmt0(year, 4) \o <<"-">> \o Fmt0(month, 2)

\* ---- sqlite's reading of a TEXT time value YYYY-MM-DD[T ]HH:MM:SS
\* (parseYyyyMmDd, parseHhMmSs): month 1..12, day 1..31, hour 0..24,
\* minute and second 0..59; anything else is NULL.  With no modifier the
\* year, month and day are rendered as they were read.
SqliteNull == <<"N", "U", "L", "L">>

SqliteValidTime(t) ==
    /\ Len(t) = 19
    /\ AllIn(t, 1, 4, Digit) /\ t[5] = "-"
    /\ AllIn(t, 6, 7, Digit) /\ t[8] = "-"
    /\ AllIn(t, 9, 10, Digit) /\ t[11] \in {"T", " "}
    /\ AllIn(t, 12, 13, Digit) /\ t[14] = ":"
    /\ AllIn(t, 15, 16, Digit) /\ t[17] = ":"
    /\ AllIn(t, 18, 19, Digit)
    /\ DigitsVal(SubSeq(t, 6, 7)) \in 1..12
    /\ DigitsVal(SubSeq(t, 9, 10)) \in 1..31
    /\ DigitsVal(SubSeq(t, 12, 13)) \in 0..24
    /\ DigitsVal(SubSeq(t, 15, 16)) \in 0..59
    /\ DigitsVal(SubSeq(t, 18, 19)) \in 0..59

\* date(paid_at)
SqliteDate(t) ==
    IF SqliteValidTime(t)
    THEN Fmt0(DigitsVal(SubSeq(t, 1, 4)), 4) \o <<"-">>
            \o Fmt0(DigitsVal(SubSeq(t, 6, 7)), 2) \o <<"-">>
            \o Fmt0(DigitsVal(SubSeq(t, 9, 10)), 2)
    ELSE SqliteNull

\* strftime('%Y-%m', paid_at)
SqliteYearMonth(t) ==
    IF SqliteValidTime(t)
    THEN Fmt0(DigitsVal(SubSeq(t, 1, 4)), 4) \o <<"-">>
            \o Fmt0(DigitsVal(SubSeq(t, 6, 7)), 2)
    ELSE SqliteNull

\* ------------------------------------------------------------ DB HELPERS
\* The payments table is the sequence of its rows in rowid order; seq is
\* the table's entry in sqlite_sequence (0 while there is none).
MaxRowid(table) ==
    IF table = <<>> THEN 0
    ELSE CHOOSE n \in {table[k].id : k \in 1..Len(table)} :
            \A k \in 1..Len(table) : table[k].id <= n

\* NextRowid of a plain INTEGER PRIMARY KEY (no AUTOINCREMENT): one more than
\* the largest rowid now in the table.
NextRowidNoAutoincrement(table, seq) == MaxRowid(table) + 1

\* id INTEGER PRIMARY KEY AUTOINCREMENT: one more than the largest rowid the
\* table has ever held.
NextRowid(table, seq) ==
    (IF MaxRowid(table) >= seq THEN MaxRowid(table) ELSE seq) + 1

\* The row save_payment inserts.
PaymentRow(id, chat_id, msg_id, parsed, raw_text) ==
    [id |-> id, chat_id |-> chat_id, msg_id |-> msg_id,
     amount |-> parsed.amount, currency |-> parsed.currency,
     paid_at |-> DatetimeIsoformat(parsed.paid_at), raw_text |-> raw_text]

\* save_payment as INSERT OR REPLACE under a unique (chat_id, msg_id): an
\* earlier row of the same message is dropped for the new one.
save_payment_replace(table, seq, chat_id, msg_id, parsed, raw_text) ==
    Append(SelectSeq(table,
                     LAMBDA r : ~(r.chat_id = chat_id /\ r.msg_id = msg_id)),
           PaymentRow(NextRowid(table, seq), chat_id, msg_id, parsed, raw_text))

\* The table after save_payment's INSERT and commit.
save_payment(table, seq, chat_id, msg_id, parsed, raw_text) ==
    Append(table,
           PaymentRow(NextRowid(table, seq), chat_id, msg_id, parsed, raw_text))

\* DeleteAll that leaves the newest row (DELETE ... WHERE id < max(id)).
DeleteAllButNewest(table) ==
    IF table = <<>> THEN <<>> ELSE <<table[Len(table)]>>

\* The table after DELETE FROM payments; and commit.
DeleteAll(table) == <<>>

\* WhereDate with the month query's predicate pasted in: it compares the
\* year and month only.
WhereDateByMonth(table, param) ==
    {k \in 1..Len(table) :
        SqliteYearMonth(table[k].paid_at) = SubSeq(param, 1, 7)}

\* WHERE date(paid_at) = ?
WhereDate(table, param) ==
    {k \in 1..Len(table) : SqliteDate(table[k].paid_at) = param}

\* WHERE strftime('%Y-%m', paid_at) = ?
WhereMonth(table, param) ==
    {k \in 1..Len(table) : SqliteYearMonth(table[k].paid_at) = param}

\* SUM(amount) over the rows of index set ks
RECURSIVE SumAmount(_, _)
SumAmount(table, ks) ==
    IF ks = {} THEN DecZero
    ELSE LET k == CHOOSE k \in ks : TRUE
         IN  DecAdd(table[k].amount, SumAmount(table, ks \ {k}))

\* the character order sqlite's BINARY collation compares by, for the letters
Collation == UpperSeq \o LowerSeq
Rank(c) == CHOOSE k \in 1..Len(Collation) : Collation[k] = c

RECURSIVE TextLess(_, _)
TextLess(s, t) ==
    IF t = <<>> THEN FALSE
    ELSE IF s = <<>> THEN TRUE
    ELSE IF s[1] = t[1] THEN TextLess(Tail(s), Tail(t))
    ELSE Rank(s[1]) < Rank(t[1])

\* SELECT currency, COUNT(*), SUM(amount) ... GROUP BY currency over the
\* selected rows: one row per distinct currency among them, in the order of
\* the group key.
RECURSIVE GroupRows(_, _, _)
GroupRows(table, ks, keys) ==
    IF keys = {} THEN <<>>
    ELSE LET c == CHOOSE c \in keys : \A o \in keys : o = c \/ TextLess(c, o)
             g == {k \in ks : table[k].currency = c}
         IN  <<[currency |-> c, count |-> Cardinality(g),
                total |-> SumAmount(table, g)]>>
                \o GroupRows(table, ks, keys \ {c})

\* GroupByCurrency that reports every recognised currency, also those with
\* no selected row (a LEFT JOIN from a currency list).
GroupByEveryCurrency(table, ks) == GroupRows(table, ks, {USD, KHR})

GroupByCurrency(table, ks) ==
    GroupRows(table, ks, {table[k].currency : k \in ks})

summarize_by_date(table, day) ==
    GroupByCurrency(table, WhereDate(table, DateIsoformat(day)))

summarize_by_month(table, year, month) ==
    GroupByCurrency(table, WhereMonth(table, YearMonthLabel(year, month)))

\* ------------------------------------------------- COMMAND ARGUMENTS
NoDate == [year |-> 0, month |-> 0, day |-> 0]

\* How many characters %m (1[0-2]|0[1-9]|[1-9]) takes at position p when
\* "-" has to follow (0: no alternative fits).
MonthFieldLen(s, p) ==
    IF /\ AllIn(s, p, p + 1, Digit)
       /\ DigitsVal(SubSeq(s, p, p + 1)) \in 1..12
       /\ LitAt(s, p + 2, <<"-">>)
    THEN 2
    ELSE IF AllIn(s, p, p, Digit \ {"0"}) /\ LitAt(s, p + 1, <<"-">>) THEN 1
    ELSE 0

\* How many characters %d (3[01]|[12]\d|0[1-9]|[1-9]) takes at position p,
\* the first alternative that fits (0: none).
DayFieldLen(s, p) ==
    IF AllIn(s, p, p + 1, Digit) /\ DigitsVal(SubSeq(s, p, p + 1)) \in 1..31
    THEN 2
    ELSE IF AllIn(s, p, p, Digit \ {"0"}) THEN 1
    ELSE 0

\* datetime.strptime(s, "%Y-%m-%d").date(): the whole of s must be
\* converted, the year must be 1..9999 and the day must exist.
StrptimeYmd(s) ==
    LET ml == MonthFieldLen(s, 6)
        p == 6 + ml + 1
        dl == DayFieldLen(s, p)
        year == DigitsVal(SubSeq(s, 1, 4))
        month == DigitsVal(SubSeq(s, 6, 5 + ml))
        day == DigitsVal(SubSeq(s, p, p + dl - 1))
        ok == /\ AllIn(s, 1, 4, Digit)
              /\ LitAt(s, 5, <<"-">>)
              /\ ml > 0
              /\ dl > 0
              /\ p + dl - 1 = Len(s)
              /\ year >= 1
              /\ day <= DaysInMonth(year, month)
    IN  IF ok THEN [ok |-> TRUE,
                    value |-> [year |-> year, month |-> month, day |-> day]]
        ELSE [ok |-> FALSE, value |-> NoDate]

\* str.split("-")
RECURSIVE SplitDash(_)
SplitDash(s) ==
    IF \E k \in 1..Len(s) : s[k] = "-"
    THEN LET k == CHOOSE k \in 1..Len(s) :
                    s[k] = "-" /\ \A h \in 1..(k - 1) : s[h] # "-"
         IN  <<SubSeq(s, 1, k - 1)>> \o SplitDash(SubSeq(s, k + 1, Len(s)))
    ELSE <<s>>

\* int(s) succeeds on decimal digits with an optional leading "+" (a "-"
\* cannot be left in a part of the split).
IntOk(s) ==
    LET ds == IF s # <<>> /\ s[1] = "+" THEN Tail(s) ELSE s
    IN  ds # <<>> /\ \A k \in 1..Len(ds) : ds[k] \in Digit

IntVal(s) == DigitsVal(IF s[1] = "+" THEN Tail(s) ELSE s)

\* year, month = map(int, arg.split("-")): any exception is caught
ParseYearMonth(arg) ==
    LET parts == SplitDash(arg)
        ok == /\ Len(parts) = 2
              /\ IntOk(parts[1])
              /\ IntOk(parts[2])
    IN  IF ok THEN [ok |-> TRUE, year |-> IntVal(parts[1]),
                    month |-> IntVal(parts[2])]
        ELSE [ok |-> FALSE, year |-> 0, month |-> 0]

\* ------------------------------------------------------------- INPUTS
\* The largest rowid the model lets the table reach.
MaxId == 2

\* Message texts the payment chat can carry.
TextUsd11 == <<"R", "e", "c", "e", "i", "v", "e", "d", " ", "2", "6", ".", "0", "0", " ", "U", "S", "D", " ", "b", "y", " ", "K", "H", "Q", "R", ",", "o", "n", " ", "1", "1", "-", "D", "e", "c", "-", "2", "0", "2", "5", " ", "0", "3", ":", "4", "6", "P", "M">>
TextKhr11 == <<"R", "e", "c", "e", "i", "v", "e", "d", " ", "8", "0", "1", ",", "0", "0", "0", " ", "K", "H", "R", " ", "b", "y", " ", "K", "H", "Q", "R", ",", "o", "n", " ", "1", "1", "-", "D", "e", "c", "-", "2", "0", "2", "5", " ", "0", "3", ":", "0", "3", "P", "M">>
TextUsd12 == <<"R", "e", "c", "e", "i", "v", "e", "d", " ", "5", ".", "5", "0", " ", "U", "S", "D", ",", " ", "1", "2", "-", "D", "e", "c", "-", "2", "0", "2", "5", " ", "1", "2", ":", "0", "5", "A", "M">>
TextKhrJan == <<"R", "e", "c", "e", "i", "v", "e", "d", " ", "4", ",", "0", "0", "0", " ", "K", "H", "R", " ", "o", "n", " ", "0", "1", "-", "J", "a", "n", "-", "2", "0", "2", "6", " ", "9", ":", "1", "5", "A", "M">>
TextAmountOnly == <<"R", "e", "c", "e", "i", "v", "e", "d", " ", "2", "6", ".", "0", "0", " ", "U", "S", "D", " ", "b", "y", " ", "K", "H", "Q", "R">>
TextDateOnly == <<"P", "a", "i", "d", " ", "b", "y", " ", "K", "H", "Q", "R", ",", "o", "n", " ", "1", "1", "-", "D", "e", "c", "-", "2", "0", "2", "5", " ", "0", "3", ":", "4", "6", "P", "M">>
TextBadDate == <<"R", "e", "c", "e", "i", "v", "e", "d", " ", "2", "6", ".", "0", "0", " ", "U", "S", "D", " ", "o", "n", " ", "3", "0", "-", "F", "e", "b", "-", "2", "0", "2", "5", " ", "0", "3", ":", "4", "6", "P", "M">>
TextCommaAmount == <<"R", "e", "c", "e", "i", "v", "e", "d", " ", ",", " ", "U", "S", "D", " ", "o", "n", " ", "1", "1", "-", "D", "e", "c", "-", "2", "0", "2", "5", " ", "0", "3", ":", "4", "6", "P", "M">>
TextChatter == <<"h", "e", "l", "l", "o">>

\* The messages the transport delivers: a message identifier names one
\* message, which may be delivered again.
Messages ==
    {[message_id |-> 1, text |-> TextUsd11],
     [message_id |-> 2, text |-> TextKhr11],
     [message_id |-> 3, text |-> TextUsd12],
     [message_id |-> 4, text |-> TextKhrJan],
     [message_id |-> 5, text |-> TextAmountOnly],
     [message_id |-> 6, text |-> TextDateOnly],
     [message_id |-> 7, text |-> TextBadDate],
     [message_id |-> 8, text |-> TextCommaAmount],
     [message_id |-> 9, text |-> TextChatter]}

Texts == {m.text : m \in Messages}
MsgIds == {m.message_id : m \in Messages}

\* First arguments of /day and /month.
ArgDay11 == <<"2", "0", "2", "5", "-", "1", "2", "-", "1", "1">>
ArgDay12 == <<"2", "0", "2", "5", "-", "1", "2", "-", "1", "2">>
ArgDayShort == <<"2", "0", "2", "6", "-", "1", "-", "1">>
ArgDayFeb30 == <<"2", "0", "2", "5", "-", "0", "2", "-", "3", "0">>
ArgMonthDec == <<"2", "0", "2", "5", "-", "1", "2">>
ArgMonthJan == <<"2", "0", "2", "6", "-", "0", "1">>
ArgMonth13 == <<"2", "0", "2", "5", "-", "1", "3">>
ArgYearOnly == <<"2", "0", "2", "5">>
ArgWords == <<"D", "e", "c", "-", "2", "0", "2", "5">>

ArgTexts ==
    {ArgDay11, ArgDay12, ArgDayShort, ArgDayFeb30, ArgMonthDec, ArgMonthJan,
     ArgMonth13, ArgYearOnly, ArgWords}

\* context.args: no argument, or one
ArgLists == {<<>>} \cup {<<a>> : a \in ArgTexts}

\* date.today()
Clock ==
    {[year |-> 2025, month |-> 12, day |-> 11],
     [year |-> 2026, month |-> 1, day |-> 1]}

OTHER_CHAT_ID == "777000"
Chats == {MAIN_CHAT_ID, SUMMARY_CHAT_ID, OTHER_CHAT_ID}

\* update.effective_user: None (the empty tuple) or a user's id
NoUser == <<>>
Users == {NoUser, <<123456789>>, <<555000111>>}

\* ------------------------------------------------------------- STATE
VARIABLES
    payments,         \* the rows of table payments, in rowid order
    sqlite_sequence,  \* the AUTOINCREMENT counter of table payments
    sent,             \* bot.send_message calls of the last handler run
    call,             \* the last handler run: its inputs and how it ended
    cleared,          \* history: a DELETE committed and no INSERT since
    saved,            \* history: per message id, the payment messages since
                      \* the last DELETE that passed the filter, parsed and
                      \* were committed
    issued,           \* history: the largest id ever given to a row
    sample,           \* the parts of the text handed to parse_payment
    outcome,          \* what parse_payment made of sample's text
    conns,            \* per worker thread, the sqlite connection of the
                      \* store function it is running
    hist              \* history of the store functions run by the workers

vars ==
    <<payments, sqlite_sequence, sent, call, cleared, saved, issued,
      sample, outcome, conns, hist>>

\* parse_payment, StrptimeYmd and ParseYearMonth over the inputs above,
\* computed once.
ParseTable == [t \in Texts |-> parse_payment(t)]
DayArgTable == [a \in ArgTexts |-> StrptimeYmd(a)]
MonthArgTable == [a \in ArgTexts |-> ParseYearMonth(a)]

\* ---- message texts
Text(kind, label, rows) == [kind |-> kind, label |-> label, rows |-> rows]

UsageDayText == Text("Usage: /day YYYY-MM-DD", <<>>, <<>>)
InvalidDateText == Text("Invalid date format. Use YYYY-MM-DD.", <<>>, <<>>)
UsageMonthText == Text("Usage: /month or /month YYYY-MM", <<>>, <<>>)
NoPaymentsText(label) == Text("No payments recorded for {label}.", label, <<>>)
\* the header line and one line "- {currency}: {total:,.2f} ({count} tx)"
\* per row
SummaryText(label, rows) == Text("Summary for {label}:", label, rows)
ResetDoneText == Text("All payment data has been cleared.", <<>>, <<>>)
ResetFailedText == Text("Failed to reset data. Check logs.", <<>>, <<>>)
StartText == Text("QR Summary Bot running.", <<>>, <<>>)
ChatIdText == Text("Chat ID: {chat_id} Title: {title}", <<>>, <<>>)

\* One bot.send_message / reply_text call: where to, what, and whether the
\* transport took it (it raises when it did not).
Send(chat_id, text, ok) == [chat_id |-> chat_id, text |-> text, delivered |-> ok]

\* send_summary_text addressed to the chat the payments come from.
send_summary_text_to_main(text, ok) == <<Send(MAIN_CHAT_ID, text, ok)>>
\* send_summary_text: one attempt to the summary chat; a failure is logged
\* and swallowed.
send_summary_text(text, ok) == <<Send(SUMMARY_CHAT_ID, text, ok)>>

\* The report a command sends for the rows of its query.
ReportText(label, rows) ==
    IF rows = <<>> THEN NoPaymentsText(label) ELSE SummaryText(label, rows)

\* ---- the record of a handler run
Query(fn, param) == [fn |-> fn, param |-> param]

\* raised: an exception left the handler; db_failed: sqlite raised during
\* the run.
Call(handler, chat_id, user, msg_id, text, args, today, raised, db_failed, queries) ==
    [handler |-> handler, chat_id |-> chat_id, user |-> user,
     msg_id |-> msg_id, text |-> text, args |-> args, today |-> today,
     raised |-> raised, db_failed |-> db_failed, queries |-> queries]

NoChat == "-"

\* no text has been handed to a parse_payment call run on its own
NoSample == <<>>
Unparsed == [kind |-> "unparsed"]

\* ---- worker threads running store functions side by side
MaxWorkers == 2
Workers == 1..MaxWorkers

\* A connection: the function it serves (op) with its argument (msg, day),
\* where the function stands (pc), the lock the connection holds on the
\* database file, the table its open transaction has written (not yet in
\* the file), and for a SELECT the rows read so far and the rows returned.
Conn(op, pc, lock, msg, day, written, read, rows) ==
    [op |-> op, pc |-> pc, lock |-> lock, msg |-> msg, day |-> day,
     written |-> written, read |-> read, rows |-> rows]

NoMessage == [message_id |-> 0, text |-> <<>>]

NoConn == Conn("none", "idle", "none", NoMessage, NoDate, <<>>, <<>>, <<>>)

\* appended: INSERTs committed since the last committed DELETE; live: the
\* ids of rows committed and not deleted by a committed DELETE that began
\* after them; gone: the ids of the rows that were in the file when a
\* DELETE, since committed, began; began[w]: the file when w's SELECT or
\* DELETE began.
NoHistory ==
    [appended |-> 0, live |-> {}, gone |-> {},
     began |-> [w \in Workers |-> <<>>]]

Init ==
    /\ sample = NoSample
    /\ outcome = Unparsed
    /\ conns = [w \in Workers |-> NoConn]
    /\ hist = NoHistory
    /\ payments = <<>>
    /\ sqlite_sequence = 0
    /\ sent = <<>>
    /\ call = Call("main", NoChat, NoUser, 0, <<>>, <<>>, NoDate, FALSE, FALSE,
                   <<>>)
    /\ cleared = FALSE
    /\ saved = [m \in MsgIds |-> 0]
    /\ issued = 0

\* ------------------------------------------------------------ HANDLERS
\* Each action is one run of a handler by the dispatcher, which runs them
\* one at a time.  db_ok says whether sqlite serves the run's statement and
\* commit (it raises otherwise, and nothing is committed); sink_ok whether
\* the transport takes a message.

\* Committed with every statement written through at once and no rollback.
CommittedWithoutRollback(table, written, db_ok) == written
\* What the database file holds after a run whose statement turned table
\* into written: the statement and conn.commit() are one transaction, and
\* when sqlite raises the connection is dropped with the transaction open,
\* which rolls it back.
Committed(table, written, db_ok) == IF db_ok THEN written ELSE table

\* TodayYearMonth with the month counted from zero.
TodayYearMonthZeroBased(today) ==
    [year |-> today.year, month |-> today.month - 1]
\* today = datetime.now().date(); year = today.year; month = today.month
TodayYearMonth(today) == [year |-> today.year, month |-> today.month]

\* AcceptsChat without the source filter.
AcceptsAnyChat(chat_id) == chat_id \in Chats

\* if msg.chat_id != MAIN_CHAT_ID: return
AcceptsChat(chat_id) == chat_id = MAIN_CHAT_ID

Frame ==
    UNCHANGED <<payments, sqlite_sequence, cleared, saved, issued, sample,
                outcome, conns, hist>>

payment_message(chat_id, msg_id, text, db_ok) ==
    LET parsed == ParseTable[text]
        saves == AcceptsChat(chat_id) /\ parsed.kind = "dict"
        raises == AcceptsChat(chat_id)
                    /\ (parsed.kind = "raise" \/ (saves /\ ~db_ok))
        table == save_payment(payments, sqlite_sequence, chat_id, msg_id,
                              parsed, text)
    IN  /\ (saves /\ db_ok) => NextRowid(payments, sqlite_sequence) <= MaxId
        /\ payments' = IF saves THEN Committed(payments, table, db_ok)
                       ELSE payments
        /\ sqlite_sequence' =
              IF saves /\ db_ok THEN MaxRowid(table) ELSE sqlite_sequence
        /\ sent' = <<>>
        /\ call' = Call("payment_message", chat_id, NoUser, msg_id, text,
                        <<>>, NoDate, raises, saves /\ ~db_ok, <<>>)
        /\ cleared' = (cleared /\ payments' = payments)
        /\ saved' =
              IF chat_id = MAIN_CHAT_ID /\ parsed.kind = "dict" /\ db_ok
              THEN [saved EXCEPT ![msg_id] = @ + 1]
              ELSE saved
        /\ issued' =
              IF MaxRowid(payments') > issued THEN MaxRowid(payments')
              ELSE issued
        /\ UNCHANGED <<sample, outcome, conns, hist>>

cmd_today(today, db_ok, sink_ok) ==
    LET rows == summarize_by_date(payments, today)
        label == DateIsoformat(today)
    IN  /\ sent' = IF db_ok THEN send_summary_text(ReportText(label, rows), sink_ok)
                   ELSE <<>>
        /\ call' = Call("cmd_today", NoChat, NoUser, 0, <<>>, <<>>, today,
                        ~db_ok, ~db_ok,
                        <<Query("summarize_by_date", label)>>)
        /\ Frame

cmd_day(args, db_ok, sink_ok) ==
    LET d == DayArgTable[args[1]]
        rows == summarize_by_date(payments, d.value)
        label == DateIsoformat(d.value)
    IN  /\ IF args = <<>>
           THEN /\ sent' = send_summary_text(UsageDayText, sink_ok)
                /\ call' = Call("cmd_day", NoChat, NoUser, 0, <<>>, args,
                                NoDate, FALSE, FALSE, <<>>)
           ELSE IF ~d.ok
           THEN /\ sent' = send_summary_text(InvalidDateText, sink_ok)
                /\ call' = Call("cmd_day", NoChat, NoUser, 0, <<>>, args,
                                NoDate, FALSE, FALSE, <<>>)
           ELSE /\ sent' = IF db_ok
                           THEN send_summary_text(ReportText(label, rows), sink_ok)
                           ELSE <<>>
                /\ call' = Call("cmd_day", NoChat, NoUser, 0, <<>>, args,
                                NoDate, ~db_ok, ~db_ok,
                                <<Query("summarize_by_date", label)>>)
        /\ Frame

cmd_month(args, today, db_ok, sink_ok) ==
    LET given == MonthArgTable[args[1]]
        year == IF args # <<>> THEN given.year ELSE TodayYearMonth(today).year
        month == IF args # <<>> THEN given.month
                 ELSE TodayYearMonth(today).month
        rows == summarize_by_month(payments, year, month)
        ym == YearMonthLabel(year, month)
        now == IF args # <<>> THEN NoDate ELSE today
    IN  /\ IF args # <<>> /\ ~given.ok
           THEN /\ sent' = send_summary_text(UsageMonthText, sink_ok)
                /\ call' = Call("cmd_month", NoChat, NoUser, 0, <<>>, args,
                                NoDate, FALSE, FALSE, <<>>)
           ELSE /\ sent' = IF db_ok
                           THEN send_summary_text(ReportText(ym, rows), sink_ok)
                           ELSE <<>>
                /\ call' = Call("cmd_month", NoChat, NoUser, 0, <<>>, args,
                                now, ~db_ok, ~db_ok,
                                <<Query("summarize_by_month", ym)>>)
        /\ Frame

\* update.message.reply_text(...): to the chat the command came from; a
\* failure of the transport is raised to the dispatcher.
start(chat_id, sink_ok) ==
    /\ sent' = <<Send(chat_id, StartText, sink_ok)>>
    /\ call' = Call("start", chat_id, NoUser, 0, <<>>, <<>>, NoDate, ~sink_ok,
                    FALSE, <<>>)
    /\ Frame

chatid(chat_id, sink_ok) ==
    /\ sent' = <<Send(chat_id, ChatIdText, sink_ok)>>
    /\ call' = Call("chatid", chat_id, NoUser, 0, <<>>, <<>>, NoDate, ~sink_ok,
                    FALSE, <<>>)
    /\ Frame

\* is_admin that lets every identified user through.
is_admin_any_user(user) == user # NoUser

\* user and user.id in ADMIN_IDS
is_admin(user) == user # NoUser /\ user[1] \in ADMIN_IDS

\* sink[k] says whether the transport takes the k-th message of the run.
\* In the try block: the DELETE, the commit and the success notice; an
\* exception from any of them reaches the except block, which sends the
\* failure notice outside any try.
\* ResetNotices with the success notice sent whatever the try block did.
ResetNoticesAlwaysDone(db_ok, sink) ==
    <<Send(SUMMARY_CHAT_ID, ResetDoneText, sink[1])>>
ResetNotices(db_ok, sink) ==
    IF ~db_ok
    THEN <<Send(SUMMARY_CHAT_ID, ResetFailedText, sink[1])>>
    ELSE IF sink[1]
    THEN <<Send(SUMMARY_CHAT_ID, ResetDoneText, TRUE)>>
    ELSE <<Send(SUMMARY_CHAT_ID, ResetDoneText, FALSE),
           Send(SUMMARY_CHAT_ID, ResetFailedText, sink[2])>>

cmd_resetdb(user, db_ok, sink) ==
    LET deletes == is_admin(user) /\ db_ok
        notices == IF is_admin(user) THEN ResetNotices(db_ok, sink) ELSE <<>>
    IN  /\ payments' = IF is_admin(user)
                       THEN Committed(payments, DeleteAll(payments), db_ok)
                       ELSE payments
        /\ sent' = notices
        /\ call' = Call("cmd_resetdb", NoChat, user, 0, <<>>, <<>>, NoDate,
                        notices # <<>> /\ ~notices[Len(notices)].delivered,
                        is_admin(user) /\ ~db_ok, <<>>)
        /\ cleared' = (deletes \/ cleared)
        /\ saved' = IF deletes THEN [m \in MsgIds |-> 0] ELSE saved
        /\ UNCHANGED <<sqlite_sequence, issued, sample, outcome, conns, hist>>

\* db_down and sink_down are the failures of sqlite and of the transport
\* during the run.
Next ==
    \/ \E chat_id \in Chats, msg \in Messages, db_down \in BOOLEAN :
            payment_message(chat_id, msg.message_id, msg.text, ~db_down)
    \/ \E today \in Clock, db_down \in BOOLEAN, sink_down \in BOOLEAN :
            cmd_today(today, ~db_down, ~sink_down)
    \/ \E args \in ArgLists, db_down \in BOOLEAN, sink_down \in BOOLEAN :
            cmd_day(args, ~db_down, ~sink_down)
    \/ \E args \in ArgLists, today \in Clock, db_down \in BOOLEAN,
          sink_down \in BOOLEAN :
            cmd_month(args, today, ~db_down, ~sink_down)
    \/ \E chat_id \in Chats, sink_down \in BOOLEAN : start(chat_id, ~sink_down)
    \/ \E chat_id \in Chats, sink_down \in BOOLEAN : chatid(chat_id, ~sink_down)
    \/ \E user \in Users, db_down \in BOOLEAN, sink_down \in [1..2 -> BOOLEAN] :
            cmd_resetdb(user, ~db_down, [k \in 1..2 |-> ~sink_down[k]])

Spec == Init /\ [][Next]_vars

\* ----------------------------------------------------- PARSER, ON ITS OWN
\* parse_payment applied to texts put together from parts: "Received", an
\* amount token, a currency, and an 'on' date-time and a comma date-time in
\* either order, each possibly missing.  Every part carries what it stands
\* for, as written down here and not as parsed: whether the token is a
\* number once its commas are gone, whether the date pattern fits the
\* part, and the moment a fitting part names when it is a calendar date
\* and a 12-hour time.
AmountToken(chars, number) == [chars |-> chars, number |-> number]

AmountTokens ==
    {AmountToken(<<"2", "6", ".", "0", "0">>, TRUE), AmountToken(<<"8", "0", "1", ",", "0", "0", "0">>, TRUE),
     AmountToken(<<"1", ",">>, TRUE), AmountToken(<<",", ".", "5">>, TRUE),
     AmountToken(<<",">>, FALSE), AmountToken(<<",", ",">>, FALSE)}

Currencies == {USD, KHR}

DatePart(chars, fits, valid, value) ==
    [chars |-> chars, fits |-> fits, valid |-> valid, value |-> value]

Moment(y, m, d, hh, mm) ==
    [year |-> y, month |-> m, day |-> d, hour |-> hh, minute |-> mm,
     second |-> 0]

NoPart == DatePart(<<>>, FALSE, FALSE, NoDatetime)

OnParts ==
    {NoPart,
     DatePart(<<" ", "o", "n", " ", "1", "1", "-", "D", "e", "c", "-", "2", "0", "2", "5", " ", "0", "3", ":", "4", "6", "P", "M">>, TRUE, TRUE,
              Moment(2025, 12, 11, 15, 46)),
     DatePart(<<" ", "o", "n", " ", "3", "0", "-", "F", "e", "b", "-", "2", "0", "2", "5", " ", "0", "3", ":", "4", "6", "P", "M">>, TRUE, FALSE, NoDatetime),
     DatePart(<<" ", "o", "n", " ", "1", "1", "-", "D", "e", "c", "-", "2", "0", "2", "5", " ", "1", "3", ":", "4", "6", "P", "M">>, TRUE, FALSE, NoDatetime),
     DatePart(<<" ", "o", "n", " ", "1", "1", "/", "1", "2", "/", "2", "0", "2", "5", " ", "0", "3", ":", "4", "6", "P", "M">>, FALSE, FALSE, NoDatetime)}

CommaParts ==
    {NoPart,
     DatePart(<<",", " ", "1", "2", "-", "D", "e", "c", "-", "2", "0", "2", "5", " ", "1", "2", ":", "0", "5", "A", "M">>, TRUE, TRUE,
              Moment(2025, 12, 12, 0, 5)),
     DatePart(<<",", " ", "3", "1", "-", "A", "p", "r", "-", "2", "0", "2", "5", " ", "1", ":", "0", "0", "P", "M">>, TRUE, FALSE, NoDatetime)}

Samples ==
    [amount : AmountTokens, currency : Currencies, on : OnParts,
     comma : CommaParts, on_first : BOOLEAN]

\* the text of a sample
Render(s) ==
    LitReceived \o <<" ">> \o s.amount.chars \o <<" ">> \o s.currency
        \o (IF s.on_first THEN s.on.chars \o s.comma.chars
            ELSE s.comma.chars \o s.on.chars)

ParserInit ==
    /\ sample \in Samples
    /\ outcome = Unparsed
    /\ conns = [w \in Workers |-> NoConn]
    /\ hist = NoHistory
    /\ payments = <<>>
    /\ sqlite_sequence = 0
    /\ sent = <<>>
    /\ call = Call("main", NoChat, NoUser, 0, <<>>, <<>>, NoDate, FALSE, FALSE,
                   <<>>)
    /\ cleared = FALSE
    /\ saved = [m \in MsgIds |-> 0]
    /\ issued = 0

\* parsed = parse_payment(text)
ParseSample ==
    /\ outcome = Unparsed
    /\ outcome' = parse_payment(Render(sample))
    /\ UNCHANGED <<payments, sqlite_sequence, sent, call, cleared, saved,
                   issued, sample, conns, hist>>

ParserNext == ParseSample

ParserSpec == ParserInit /\ [][ParserNext]_vars
\* ------------------------------------------- STORE FUNCTIONS, SIDE BY SIDE
\* save_payment, summarize_by_date and the reset of cmd_resetdb, each on a
\* connection of its own (sqlite3.connect per call), run by worker threads
\* whose steps interleave.  The database file is in sqlite's default
\* rollback-journal mode: a SELECT reads the table under a SHARED lock; an
\* INSERT or DELETE opens a transaction under the RESERVED lock, which one
\* connection at a time can hold, and keeps what it writes to itself until
\* conn.commit(), which needs the file free of SHARED locks.  A connection
\* that waits for a lock longer than its timeout gets "database is locked".
StoreMessages == {m \in Messages : m.message_id \in {1, 3}}
StoreDays == {[year |-> 2025, month |-> 12, day |-> 11]}

TableIds(table) == {table[k].id : k \in 1..Len(table)}

StoreInit ==
    /\ conns = [w \in Workers |-> NoConn]
    /\ hist = NoHistory
    /\ sample = NoSample
    /\ outcome = Unparsed
    /\ payments = <<>>
    /\ sqlite_sequence = 0
    /\ sent = <<>>
    /\ call = Call("main", NoChat, NoUser, 0, <<>>, <<>>, NoDate, FALSE, FALSE,
                   <<>>)
    /\ cleared = FALSE
    /\ saved = [m \in MsgIds |-> 0]
    /\ issued = 0

HandlersIdle ==
    UNCHANGED <<sent, call, cleared, saved, issued, sample, outcome>>

\* CanReserve that grants the RESERVED lock whoever holds it.
CanReserveAlways(w) == TRUE

\* the RESERVED lock is free for w
CanReserve(w) == \A v \in Workers \ {w} : conns[v].lock # "reserved"

\* CanCommit that does not wait for the readers.
CanCommitAlways(w) == TRUE

\* no other connection holds a SHARED lock, so w's commit can write the file
CanCommit(w) == \A v \in Workers \ {w} : conns[v].lock # "shared"

\* conn = sqlite3.connect(DB_FILE) in save_payment, for a main-chat message
\* that parsed
connect_save_payment(w, msg) ==
    /\ conns[w].pc = "idle"
    /\ sqlite_sequence
         + Cardinality({v \in Workers : conns[v].op = "save_payment"}) < MaxId
    /\ conns' = [conns EXCEPT ![w] =
                    Conn("save_payment", "connected", "none", msg, NoDate,
                         <<>>, <<>>, <<>>)]
    /\ UNCHANGED <<payments, sqlite_sequence, hist>>
    /\ HandlersIdle

\* conn = sqlite3.connect(DB_FILE) in summarize_by_date
connect_summarize_by_date(w, day) ==
    /\ conns[w].pc = "idle"
    /\ conns' = [conns EXCEPT ![w] =
                    Conn("summarize_by_date", "connected", "none", NoMessage,
                         day, <<>>, <<>>, <<>>)]
    /\ UNCHANGED <<payments, sqlite_sequence, hist>>
    /\ HandlersIdle

\* conn = sqlite3.connect(DB_FILE) in cmd_resetdb
connect_cmd_resetdb(w) ==
    /\ conns[w].pc = "idle"
    /\ conns' = [conns EXCEPT ![w] =
                    Conn("cmd_resetdb", "connected", "none", NoMessage,
                         NoDate, <<>>, <<>>, <<>>)]
    /\ UNCHANGED <<payments, sqlite_sequence, hist>>
    /\ HandlersIdle

\* cur.execute("INSERT INTO payments ..."): the row is written in w's
\* transaction.
execute_insert(w) ==
    /\ conns[w].pc = "connected"
    /\ conns[w].op = "save_payment"
    /\ CanReserve(w)
    /\ conns' = [conns EXCEPT
                    ![w].pc = "executed",
                    ![w].lock = "reserved",
                    ![w].written =
                        save_payment(payments, sqlite_sequence, MAIN_CHAT_ID,
                                     conns[w].msg.message_id,
                                     ParseTable[conns[w].msg.text],
                                     conns[w].msg.text)]
    /\ UNCHANGED <<payments, sqlite_sequence, hist>>
    /\ HandlersIdle

\* cur.execute("DELETE FROM payments")
execute_delete(w) ==
    /\ conns[w].pc = "connected"
    /\ conns[w].op = "cmd_resetdb"
    /\ CanReserve(w)
    /\ conns' = [conns EXCEPT
                    ![w].pc = "executed",
                    ![w].lock = "reserved",
                    ![w].written = DeleteAll(payments)]
    /\ hist' = [hist EXCEPT !.began[w] = payments]
    /\ UNCHANGED <<payments, sqlite_sequence>>
    /\ HandlersIdle

\* conn.commit(); conn.close() of save_payment and of cmd_resetdb
commit(w) ==
    /\ conns[w].pc = "executed"
    /\ CanCommit(w)
    /\ payments' = conns[w].written
    /\ sqlite_sequence' =
          IF conns[w].op = "save_payment" THEN MaxRowid(conns[w].written)
          ELSE sqlite_sequence
    /\ conns' = [conns EXCEPT ![w] = NoConn]
    /\ hist' =
          IF conns[w].op = "save_payment"
          THEN [hist EXCEPT
                    !.appended = @ + 1,
                    !.live = @ \cup {conns[w].written[Len(conns[w].written)].id}]
          ELSE [hist EXCEPT
                    !.appended = 0,
                    !.live = @ \ TableIds(hist.began[w]),
                    !.gone = @ \cup TableIds(hist.began[w])]
    /\ HandlersIdle

\* cur.execute("SELECT currency, COUNT(*), SUM(amount) ..."): the scan of
\* the table begins.
execute_select(w) ==
    /\ conns[w].pc = "connected"
    /\ conns[w].op = "summarize_by_date"
    /\ conns' = [conns EXCEPT ![w].pc = "reading", ![w].lock = "shared"]
    /\ hist' = [hist EXCEPT !.began[w] = payments]
    /\ UNCHANGED <<payments, sqlite_sequence>>
    /\ HandlersIdle

\* the scan reads the next row of the file
read_row(w) ==
    /\ conns[w].pc = "reading"
    /\ Len(conns[w].read) < Len(payments)
    /\ conns' = [conns EXCEPT
                    ![w].read = Append(@, payments[Len(conns[w].read) + 1])]
    /\ UNCHANGED <<payments, sqlite_sequence, hist>>
    /\ HandlersIdle

\* rows = cur.fetchall(); conn.close(): the scan is over and the groups of
\* the rows it read are returned.
fetchall(w) ==
    /\ conns[w].pc = "reading"
    /\ Len(conns[w].read) >= Len(payments)
    /\ conns' = [conns EXCEPT
                    ![w].pc = "returned",
                    ![w].lock = "none",
                    ![w].rows = summarize_by_date(conns[w].read, conns[w].day)]
    /\ UNCHANGED <<payments, sqlite_sequence, hist>>
    /\ HandlersIdle

\* return rows: the handler goes on with them and the worker is free
return_rows(w) ==
    /\ conns[w].pc = "returned"
    /\ conns' = [conns EXCEPT ![w] = NoConn]
    /\ UNCHANGED <<payments, sqlite_sequence, hist>>
    /\ HandlersIdle

\* sqlite3.OperationalError: database is locked, from the execute of an
\* INSERT or DELETE or from the commit: the function raises, its
\* connection is dropped and its transaction rolled back.
database_is_locked(w) ==
    /\ \/ /\ conns[w].pc = "connected"
          /\ conns[w].op \in {"save_payment", "cmd_resetdb"}
          /\ ~CanReserve(w)
       \/ /\ conns[w].pc = "executed"
          /\ ~CanCommit(w)
    /\ conns' = [conns EXCEPT ![w] = NoConn]
    /\ UNCHANGED <<payments, sqlite_sequence, hist>>
    /\ HandlersIdle

StoreNext ==
    \/ \E w \in Workers, msg \in StoreMessages : connect_save_payment(w, msg)
    \/ \E w \in Workers, day \in StoreDays : connect_summarize_by_date(w, day)
    \/ \E w \in Workers : connect_cmd_resetdb(w)
    \/ \E w \in Workers : execute_insert(w)
    \/ \E w \in Workers : execute_delete(w)
    \/ \E w \in Workers : commit(w)
    \/ \E w \in Workers : execute_select(w)
    \/ \E w \in Workers : read_row(w)
    \/ \E w \in Workers : fetchall(w)
    \/ \E w \in Workers : return_rows(w)
    \/ \E w \in Workers : database_is_locked(w)

StoreSpec == StoreInit /\ [][StoreNext]_vars
\* ---------------------------------------------------------- PROPERTIES
\* What the patterns extract from a text, pair by pair: the amount and
\* currency of the first AMT_PATTERN match, and the date-time of the match
\* of the first date pattern that matches.
Extraction(text) ==
    LET m_amt == AMT_PATTERN(text)
        amount == Float(StripCommas(m_amt.groups[1]))
        m_dt == DtMatch(text)
        paid_at == Strptime(m_dt.groups[1], m_dt.groups[2])
        has_amount == m_amt.matched /\ amount.ok
        has_date == m_dt.matched /\ paid_at.ok
    IN  [has_amount |-> has_amount,
         amount |-> IF has_amount THEN amount.value ELSE DecZero,
         currency |-> IF has_amount THEN m_amt.groups[2] ELSE <<>>,
         has_date |-> has_date,
         paid_at |-> IF has_date THEN paid_at.value ELSE NoDatetime]

ExtractionTable == [t \in Texts |-> Extraction(t)]

ReportHandlers == {"cmd_today", "cmd_day", "cmd_month"}

\* C1: a message from a chat other than MAIN_CHAT_ID leaves the record store
\* as it was and sends nothing, whatever its text; and so every stored
\* record has chat_id = MAIN_CHAT_ID.
C1_OtherChatsIgnored ==
    /\ [][(call'.handler = "payment_message" /\ call'.chat_id # MAIN_CHAT_ID)
            => /\ payments' = payments
               /\ sqlite_sequence' = sqlite_sequence
               /\ sent' = <<>>
               /\ ~call'.raised]_vars
    /\ [](\A k \in 1..Len(payments) : payments[k].chat_id = MAIN_CHAT_ID)

\* C1 witness: a text that parses as a payment arrived from another chat
\* while the store held records.
C1_Witness ==
    /\ call.handler = "payment_message"
    /\ call.chat_id # MAIN_CHAT_ID
    /\ ExtractionTable[call.text].has_amount
    /\ ExtractionTable[call.text].has_date
    /\ payments # <<>>

\* C2: every stored record carries the amount, the currency (USD or KHR) and
\* the date-time extracted from its own raw_text; and a main-chat message
\* from which only one of the two pairs can be extracted leaves the store
\* unchanged.
C2_RecordsFromOwnText ==
    /\ [](\A k \in 1..Len(payments) :
            LET x == ExtractionTable[payments[k].raw_text]
            IN  /\ x.has_amount
                /\ x.has_date
                /\ payments[k].amount = x.amount
                /\ payments[k].currency = x.currency
                /\ payments[k].currency \in {USD, KHR}
                /\ payments[k].paid_at = DatetimeIsoformat(x.paid_at))
    /\ [][(/\ call'.handler = "payment_message"
            /\ call'.chat_id = MAIN_CHAT_ID
            /\ ExtractionTable[call'.text].has_amount
                    # ExtractionTable[call'.text].has_date)
            => /\ payments' = payments
               /\ sqlite_sequence' = sqlite_sequence]_vars

\* C2 witness: the main chat delivered a text with an amount and currency
\* but no valid date-time while the store held records.
C2_Witness ==
    /\ call.handler = "payment_message"
    /\ call.chat_id = MAIN_CHAT_ID
    /\ ExtractionTable[call.text].has_amount
    /\ ~ExtractionTable[call.text].has_date
    /\ payments # <<>>

\* The rows that message id m of the main chat has in the table.
RowsOf(m) ==
    {k \in 1..Len(payments) :
        payments[k].chat_id = MAIN_CHAT_ID /\ payments[k].msg_id = m}

\* C3 as claimed: with no DELETE since, the store holds exactly one record
\* for each (chat_id, msg_id) of a main-chat message that parsed and was
\* committed, however often that message identifier was delivered, and no
\* record for any other message.
C3_OnePerMessageId ==
    /\ \A m \in MsgIds :
            Cardinality(RowsOf(m)) = (IF saved[m] > 0 THEN 1 ELSE 0)
    /\ \A k \in 1..Len(payments) : k \in RowsOf(payments[k].msg_id)

\* C3 as amended: with no DELETE since, the store holds one record per
\* delivery of a main-chat message that parsed and was committed (a message
\* identifier delivered n times has n records), and no record for any other
\* message.
C3_OnePerDelivery ==
    /\ \A m \in MsgIds : Cardinality(RowsOf(m)) = saved[m]
    /\ \A k \in 1..Len(payments) : k \in RowsOf(payments[k].msg_id)

\* C3 witness: one message identifier was delivered twice and has two
\* records.
C3_Witness ==
    \E m \in MsgIds : saved[m] = 2 /\ Cardinality(RowsOf(m)) = 2

\* The dates and the year-months the queries are probed with: those of the
\* stored payments and ones that share a day, month or year with them.
ProbeDays ==
    {[year |-> y, month |-> m, day |-> d] :
        y \in {2025, 2026}, m \in {1, 12}, d \in {1, 11, 12}}
ProbeMonths ==
    {[year |-> y, month |-> m] : y \in {2025, 2026}, m \in {0, 1, 12, 13}}

\* C4: from an admin's committed DELETE until the next committed INSERT,
\* every by-date and every by-month query returns no rows, and a report
\* command whose query ran sends the 'No payments recorded' text.
C4_EmptyAfterReset ==
    cleared =>
        /\ \A d \in ProbeDays : summarize_by_date(payments, d) = <<>>
        /\ \A ym \in ProbeMonths :
                summarize_by_month(payments, ym.year, ym.month) = <<>>
        /\ (call.handler \in ReportHandlers /\ call.queries # <<>>
                /\ ~call.raised)
            => /\ Len(sent) = 1
               /\ sent[1].text = NoPaymentsText(call.queries[1].param)

\* C4 witness: two records had been stored, an admin reset the store, and a
\* month report then said that no payments are recorded.
C4_Witness ==
    /\ cleared
    /\ issued >= 2
    /\ call.handler = "cmd_month"
    /\ Len(sent) = 1
    /\ sent[1].text = NoPaymentsText(ArgMonthDec)

\* C5: cmd_resetdb by a user who is not in ADMIN_IDS, or with no user,
\* leaves the store unchanged and sends no message to any chat.
C5_NonAdminResetIgnored ==
    [][(/\ call'.handler = "cmd_resetdb"
        /\ (call'.user = NoUser \/ call'.user[1] \notin ADMIN_IDS))
        => /\ payments' = payments
           /\ sqlite_sequence' = sqlite_sequence
           /\ sent' = <<>>
           /\ ~call'.raised]_vars

\* C5 witness: a user outside ADMIN_IDS ran /resetdb while the store held
\* records.
C5_Witness ==
    /\ call.handler = "cmd_resetdb"
    /\ call.user # NoUser
    /\ call.user[1] \notin ADMIN_IDS
    /\ payments # <<>>

\* C6: every step leaves the store unchanged, or adds exactly one record
\* after the existing ones and leaves those as they were, or removes every
\* record; the report handlers, start and chatid leave it unchanged.
C6_StoreSteps ==
    /\ [][\/ payments' = payments
          \/ /\ Len(payments') = Len(payments) + 1
             /\ SubSeq(payments', 1, Len(payments)) = payments
          \/ payments' = <<>>]_vars
    /\ [][call'.handler \in ReportHandlers \cup {"start", "chatid"}
            => payments' = payments /\ sqlite_sequence' = sqlite_sequence]_vars

\* C6 witness: a report ran its query over a store of two records.
C6_Witness ==
    /\ call.handler \in ReportHandlers
    /\ Len(payments) = 2
    /\ call.queries # <<>>

\* ---- the aggregation computed directly over the stored records
\* The date-time a stored record was given: the one read from its text.
PaidAtOf(k) == ExtractionTable[payments[k].raw_text].paid_at

OnDay(d) ==
    {k \in 1..Len(payments) :
        /\ PaidAtOf(k).year = d.year
        /\ PaidAtOf(k).month = d.month
        /\ PaidAtOf(k).day = d.day}

InMonth(ym) ==
    {k \in 1..Len(payments) :
        PaidAtOf(k).year = ym.year /\ PaidAtOf(k).month = ym.month}

\* the sum of the amounts of the records among the first n that are in ks
RECURSIVE DirectSum(_, _)
DirectSum(n, ks) ==
    IF n = 0 THEN DecZero
    ELSE DecAdd(DirectSum(n - 1, ks),
                IF n \in ks THEN payments[n].amount ELSE DecZero)

Direct(ks) ==
    {[currency |-> c,
      count |-> Cardinality({k \in ks : payments[k].currency = c}),
      total |-> DirectSum(Len(payments), {k \in ks : payments[k].currency = c})] :
        c \in {payments[k].currency : k \in ks}}

RowSet(rows) == {rows[i] : i \in 1..Len(rows)}

SameAggregation(rows, ks) ==
    RowSet(rows) = Direct(ks) /\ Len(rows) = Cardinality(Direct(ks))

\* C7: the rows of summarize_by_date(d) are the per-currency count and sum
\* over exactly the stored records whose paid_at falls on day d, at any time
\* of day, and those of summarize_by_month(y, m) over exactly the records
\* whose paid_at falls in month y-m.
C7_QueriesMatchDirectAggregation ==
    /\ \A d \in ProbeDays :
            SameAggregation(summarize_by_date(payments, d), OnDay(d))
    /\ \A ym \in ProbeMonths :
            SameAggregation(summarize_by_month(payments, ym.year, ym.month),
                            InMonth(ym))

\* C7 witness: a day that some stored records fall on and others do not, and
\* a month whose summary adds up two records of one currency.
C7_Witness ==
    /\ \E d \in ProbeDays : OnDay(d) # {} /\ OnDay(d) # 1..Len(payments)
    /\ \E ym \in ProbeMonths :
            \E r \in RowSet(summarize_by_month(payments, ym.year, ym.month)) :
                r.count = 2

\* no stored record falls in the period a query asked for
NoneMatches(q) ==
    \A k \in 1..Len(payments) :
        IF q.fn = "summarize_by_date"
        THEN DateIsoformat(PaidAtOf(k)) # q.param
        ELSE YearMonthLabel(PaidAtOf(k).year, PaidAtOf(k).month) # q.param

WellFormedRows(rows) ==
    /\ \A i \in 1..Len(rows) : rows[i].count >= 1
    /\ \A i, j \in 1..Len(rows) : rows[i].currency = rows[j].currency => i = j

\* C8: every row a query returns counts at least one transaction and no two
\* rows are of one currency; a report whose query found no matching record
\* sends the 'No payments recorded' text, and no summary is sent with a
\* header and no currency line.
C8_NoEmptyRows ==
    /\ \A d \in ProbeDays : WellFormedRows(summarize_by_date(payments, d))
    /\ \A ym \in ProbeMonths :
            WellFormedRows(summarize_by_month(payments, ym.year, ym.month))
    /\ \A i \in 1..Len(sent) :
            sent[i].text.kind = SummaryText(<<>>, <<>>).kind
                => sent[i].text.rows # <<>> /\ WellFormedRows(sent[i].text.rows)
    /\ (/\ call.handler \in ReportHandlers
        /\ call.queries # <<>>
        /\ ~call.raised
        /\ NoneMatches(call.queries[1]))
        => /\ Len(sent) = 1
           /\ sent[1].text = NoPaymentsText(call.queries[1].param)

\* C8 witness: the store held records, none of them in the period asked
\* for, and the report said that no payments are recorded.
C8_Witness ==
    /\ call.handler \in ReportHandlers
    /\ payments # <<>>
    /\ call.queries # <<>>
    /\ NoneMatches(call.queries[1])
    /\ Len(sent) = 1
    /\ sent[1].text = NoPaymentsText(call.queries[1].param)

RowIds(table) == {table[k].id : k \in 1..Len(table)}

\* C9: the id given to a newly appended record is greater than the id of
\* every record appended before it, those removed by a DELETE included.
C9_IdsNeverReused ==
    [][\A n \in RowIds(payments') \ RowIds(payments) : n > issued]_vars

\* C9 witness: the only stored record was appended after a reset that
\* removed an earlier one, and its id is 2.
C9_Witness ==
    /\ Len(payments) = 1
    /\ payments[1].id = 2
    /\ issued = 2

\* a non-empty run of at most n decimal digits
DigitField(s, n) == s # <<>> /\ Len(s) <= n /\ AllIn(s, 1, Len(s), Digit)

\* A day of the calendar written year-month-day: a four-digit year, and a
\* month and a day of one or two digits (the reading of YYYY-MM-DD that
\* admits the most arguments).
DayArgIsDate(a) ==
    LET parts == SplitDash(a)
    IN  /\ Len(parts) = 3
        /\ Len(parts[1]) = 4
        /\ DigitField(parts[1], 4)
        /\ DigitField(parts[2], 2)
        /\ DigitField(parts[3], 2)
        /\ DigitsVal(parts[1]) >= 1
        /\ DigitsVal(parts[2]) \in 1..12
        /\ DigitsVal(parts[3]) \in
                1..DaysInMonth(DigitsVal(parts[1]), DigitsVal(parts[2]))

\* A month written year-month: a four-digit year and a month in 1..12.
MonthArgIsMonth(a) ==
    LET parts == SplitDash(a)
    IN  /\ Len(parts) = 2
        /\ Len(parts[1]) = 4
        /\ DigitField(parts[1], 4)
        /\ DigitField(parts[2], 2)
        /\ DigitsVal(parts[2]) \in 1..12

\* C10: an argument of /day that is not a calendar date in YYYY-MM-DD form,
\* or of /month that is not YYYY-MM with the month in 1..12, gets a usage or
\* format message and no query is run for it.
C10_MalformedArgumentRejected ==
    /\ (call.handler = "cmd_day" /\ call.args # <<>>
            /\ ~DayArgIsDate(call.args[1]))
        => /\ call.queries = <<>>
           /\ Len(sent) = 1
           /\ sent[1].text \in {UsageDayText, InvalidDateText}
    /\ (call.handler = "cmd_month" /\ call.args # <<>>
            /\ ~MonthArgIsMonth(call.args[1]))
        => /\ call.queries = <<>>
           /\ Len(sent) = 1
           /\ sent[1].text = UsageMonthText

\* C11 as stated: a day query or a month query with no argument runs the
\* query for the current date or month and sends no usage message.
C11_NoArgumentRunsCurrentPeriod ==
    (call.handler \in ReportHandlers /\ call.args = <<>>)
        => /\ \A i \in 1..Len(sent) :
                sent[i].text \notin {UsageDayText, UsageMonthText}
           /\ \E today \in Clock :
                call.queries \in
                    {<<Query("summarize_by_date", DateIsoformat(today))>>,
                     <<Query("summarize_by_month",
                             YearMonthLabel(today.year, today.month))>>}

\* C11, amended: /today, and /month with no argument, run the query for the
\* clock's date or month and report its rows under that period's label;
\* /day with no argument runs no query and answers with its usage message.
C11_NoArgumentDefaults ==
    /\ call.handler = "cmd_today"
        => /\ call.queries =
                <<Query("summarize_by_date", DateIsoformat(call.today))>>
           /\ ~call.db_failed
                => /\ Len(sent) = 1
                   /\ sent[1].text.label = DateIsoformat(call.today)
                   /\ sent[1].text =
                        ReportText(sent[1].text.label, sent[1].text.rows)
                   /\ SameAggregation(sent[1].text.rows, OnDay(call.today))
    /\ (call.handler = "cmd_month" /\ call.args = <<>>)
        => /\ call.today \in Clock
           /\ call.queries =
                <<Query("summarize_by_month",
                        YearMonthLabel(call.today.year, call.today.month))>>
           /\ ~call.db_failed
                => /\ Len(sent) = 1
                   /\ sent[1].text.label =
                        YearMonthLabel(call.today.year, call.today.month)
                   /\ sent[1].text =
                        ReportText(sent[1].text.label, sent[1].text.rows)
                   /\ SameAggregation(sent[1].text.rows,
                                      InMonth([year |-> call.today.year,
                                               month |-> call.today.month]))
    /\ (call.handler = "cmd_day" /\ call.args = <<>>)
        => /\ call.queries = <<>>
           /\ Len(sent) = 1
           /\ sent[1].text = UsageDayText
           /\ sent[1].chat_id = SUMMARY_CHAT_ID

\* a /month with no argument that reported the payments of the clock's month
C11_Witness ==
    /\ call.handler = "cmd_month"
    /\ call.args = <<>>
    /\ Len(sent) = 1
    /\ sent[1].text.rows # <<>>
    /\ sent[1].text.label = YearMonthLabel(call.today.year, call.today.month)

\* C12: in cmd_today, cmd_day, cmd_month and cmd_resetdb a message the
\* transport does not take is the last one the run attempts, and no
\* exception leaves the handler because of it.
C12_SinkFailureSwallowed ==
    call.handler \in ReportHandlers \cup {"cmd_resetdb"}
        => \A i \in 1..Len(sent) :
                ~sent[i].delivered => (i = Len(sent) /\ ~call.raised)

\* C13: when sqlite raises in an allow-listed cmd_resetdb (on connect, on
\* the DELETE or on the commit), the run attempts the failure notice to the
\* summary chat, attempts no success notice, and the table is as before.
C13_ResetFailureNoticed ==
    /\ [](call.handler = "cmd_resetdb" /\ call.db_failed
            => /\ is_admin(call.user)
               /\ Len(sent) = 1
               /\ sent[1].chat_id = SUMMARY_CHAT_ID
               /\ sent[1].text = ResetFailedText)
    /\ [][(call'.handler = "cmd_resetdb" /\ call'.db_failed)
            => (payments' = payments /\ sqlite_sequence' = sqlite_sequence)]_vars

\* a reset that failed on a table with rows, which are still there
C13_Witness ==
    /\ call.handler = "cmd_resetdb"
    /\ call.db_failed
    /\ payments # <<>>
    /\ Len(sent) = 1
    /\ sent[1].text = ResetFailedText

\* C14: when sqlite raises during the INSERT of payment_message or during
\* the query of cmd_today, cmd_day or cmd_month, the exception leaves the
\* handler, the run sends nothing (no summary and no 'No payments recorded'
\* text), and the table and its id sequence are as before.
C14_StoreFailurePropagates ==
    /\ [](call.handler \in ReportHandlers \cup {"payment_message"}
            /\ call.db_failed
            => (call.raised /\ sent = <<>>))
    /\ [][(call'.handler \in ReportHandlers \cup {"payment_message"}
            /\ call'.db_failed)
            => /\ payments' = payments
               /\ sqlite_sequence' = sqlite_sequence
               /\ saved' = saved]_vars

\* an INSERT that failed for a main-chat payment text while the table had
\* rows
C14_Witness ==
    /\ call.handler = "payment_message"
    /\ call.chat_id = MAIN_CHAT_ID
    /\ ParseTable[call.text].kind = "dict"
    /\ call.db_failed
    /\ call.raised
    /\ payments # <<>>

\* The texts a report command may send: a usage or format message, the
\* no-data text for a period, or the header for a period with one line per
\* currency of the result, each currency once.
ReportForms(t) ==
    \/ t \in {UsageDayText, InvalidDateText, UsageMonthText}
    \/ t = NoPaymentsText(t.label) /\ t.label # <<>>
    \/ /\ t = SummaryText(t.label, t.rows)
       /\ t.label # <<>>
       /\ t.rows # <<>>
       /\ \A i, j \in 1..Len(t.rows) :
            t.rows[i].currency = t.rows[j].currency => i = j

\* C19 as stated: every run of cmd_today, cmd_day or cmd_month attempts
\* exactly one message, addressed to SUMMARY_CHAT_ID, in one of the report
\* forms.
C19_ExactlyOneMessageToSummary ==
    call.handler \in ReportHandlers
        => /\ Len(sent) = 1
           /\ sent[1].chat_id = SUMMARY_CHAT_ID
           /\ ReportForms(sent[1].text)

\* C19, amended: a run of cmd_today, cmd_day or cmd_month in which sqlite
\* raised attempts no message; every other run attempts exactly one,
\* addressed to SUMMARY_CHAT_ID and never to MAIN_CHAT_ID, in one of the
\* report forms, and a summary has one line for each currency among the
\* stored records.
C19_ReportsGoToSummaryOnly ==
    call.handler \in ReportHandlers
        => IF call.db_failed
           THEN sent = <<>>
           ELSE /\ Len(sent) = 1
                /\ sent[1].chat_id = SUMMARY_CHAT_ID
                /\ sent[1].chat_id # MAIN_CHAT_ID
                /\ ReportForms(sent[1].text)
                /\ \A i \in 1..Len(sent[1].text.rows) :
                     \E k \in 1..Len(payments) :
                        payments[k].currency = sent[1].text.rows[i].currency

\* a /day run that sent a two-currency summary to the summary chat
C19_Witness ==
    /\ call.handler = "cmd_day"
    /\ Len(sent) = 1
    /\ sent[1].chat_id = SUMMARY_CHAT_ID
    /\ Len(sent[1].text.rows) = 2

\* C20: the notices of a cmd_resetdb run agree with the table: the failure
\* notice is attempted only in a run whose DELETE was not committed
\* (sqlite raised), and the success notice only in a run that emptied the
\* table.
C20_NoticesAgreeWithStore ==
    call.handler = "cmd_resetdb"
        => \A i \in 1..Len(sent) :
            /\ sent[i].text = ResetFailedText => call.db_failed
            /\ sent[i].text = ResetDoneText
                => (~call.db_failed /\ cleared /\ payments = <<>>)

\* C17: parse_payment ends, for every text, in a complete record or in None
\* and never in an exception, whatever the amount token is once its commas
\* are stripped.
C17_ParseNeverRaises ==
    outcome # Unparsed
        => \/ outcome = ParsedNone
           \/ /\ outcome.kind = "dict"
              /\ DOMAIN outcome = {"kind", "amount", "currency", "paid_at"}
              /\ outcome.currency \in Currencies

\* The date part parse_payment goes by: the 'on' part when the 'on' pattern
\* fits it, the comma part otherwise.
Chosen(s) == IF s.on.fits THEN s.on ELSE s.comma

\* C18: paid_at comes from the 'on' date-time whenever the 'on' pattern
\* fits, before or after a comma date-time; from the comma date-time only
\* when the 'on' pattern fits nothing; and when the date-time gone by is not
\* a calendar date and 12-hour time there is no record, the other pattern's
\* date-time being left untried (None, once the amount was a number).
C18_OnPatternFirst ==
    outcome # Unparsed
        => /\ outcome.kind = "dict"
                => /\ Chosen(sample).fits
                   /\ Chosen(sample).valid
                   /\ outcome.paid_at = Chosen(sample).value
           /\ (sample.amount.number /\ Chosen(sample).valid)
                => outcome.kind = "dict"
           /\ (sample.amount.number /\ ~Chosen(sample).valid)
                => outcome = ParsedNone

\* a text with a comma date-time first and an 'on' date-time after it, both
\* valid, whose record has the 'on' date-time
C18_Witness ==
    /\ outcome.kind = "dict"
    /\ ~sample.on_first
    /\ sample.on.valid
    /\ sample.comma.valid
    /\ outcome.paid_at = sample.on.value
    /\ outcome.paid_at # sample.comma.value

\* C15: however the steps of the workers interleave, the store functions
\* act as if run one at a time: the table holds one row for each INSERT
\* committed since the last committed DELETE, each under an id of its own
\* (no lost write), and the rows a SELECT returns are the groups of the one
\* table that was in the file when the SELECT began.
C15_StoreFunctionsSerialized ==
    /\ Len(payments) = hist.appended
    /\ Cardinality(TableIds(payments)) = Len(payments)
    /\ \A w \in Workers :
        conns[w].pc = "returned"
            => /\ conns[w].read = hist.began[w]
               /\ conns[w].rows =
                    summarize_by_date(hist.began[w], conns[w].day)

\* a SELECT has returned the group of the one committed row while the
\* other worker's INSERT transaction is open, not yet committed
C15_Witness ==
    \E w, v \in Workers :
        /\ conns[w].pc = "returned"
        /\ Len(conns[w].rows) = 1
        /\ conns[v].pc = "executed"
        /\ conns[v].op = "save_payment"
        /\ Len(payments) = 1
        /\ Len(conns[v].written) = 2

\* C16: a DELETE and an INSERT never have their transactions open at the
\* same time; a row that was in the file when a DELETE began is absent once
\* that DELETE has committed; and a row committed since is in the file
\* until a DELETE that began after it commits.
C16_ResetExcludesAppend ==
    /\ Cardinality({w \in Workers : conns[w].lock = "reserved"}) <= 1
    /\ hist.gone \cap TableIds(payments) = {}
    /\ hist.live = TableIds(payments)

\* a DELETE has committed and removed a row, a row committed after it is in
\* the file, and the next DELETE is waiting for a SELECT to end
C16_Witness ==
    \E w, v \in Workers :
        /\ hist.gone # {}
        /\ payments # <<>>
        /\ conns[w].op = "cmd_resetdb"
        /\ conns[w].pc = "executed"
        /\ conns[v].pc = "reading"
=============================================================================
